---- MODULE Spec2Model ----
(***************************************************************************)
(* Model of StepImporter.get_doc_items (rayforge/image/step/importer.py).  *)
(* One call of get_doc_items is a sequential run over the stages of the    *)
(* function; the CAD kernel is the environment: every kernel call either   *)
(* raises or returns a value drawn from a small set.                       *)
(***************************************************************************)
EXTENDS Integers, Sequences, FiniteSets, TLC

\* ---------------------------------------------------------------- bounds
MaxObj   == 2   \* at most this many solids / shells / loose faces in a model
MaxFaces == 2   \* at most this many planar faces on the primary object
MaxArea  == 2   \* face areas are drawn from 1..MaxArea
MaxWires == 2   \* at most this many wires (loops) in a projection
MaxEdges == 3   \* at most this many edges in all the wires of a projection
MaxPts   == 2   \* at most this many points returned by one discretize call
MaxGeoPoints == 3  \* the kernel's answers keep the geometry within this many points

\* Points the kernel may return (start points, discretization points).
SamplePoints == { <<1, 1>>, <<3, 1>>, <<3, 4>> }

\* ------------------------------------------------------- exact arithmetic
\* Coordinates are exact rationals <<numerator, denominator>>, denominator
\* positive, in lowest terms (the code's floats, without rounding). A zero
\* denominator is what a division by zero leaves: <<1, 0>> and <<-1, 0>>
\* are the infinities, <<0, 0>> is NaN.
Abs(n) == IF n < 0 THEN -n ELSE n

RECURSIVE GCD(_, _)
GCD(a, b) == IF b = 0 THEN a ELSE GCD(b, a % b)

Rat(n, d) ==
    LET g == GCD(Abs(n), Abs(d))
        s == IF d < 0 THEN -1 ELSE 1
    IN  IF d = 0
          THEN << IF n > 0 THEN 1 ELSE IF n < 0 THEN -1 ELSE 0, 0 >>
          ELSE << (s * n) \div g, (s * d) \div g >>

RInt(n)    == << n, 1 >>
RAdd(a, b) == Rat(a[1] * b[2] + b[1] * a[2], a[2] * b[2])
RNeg(a)    == << -a[1], a[2] >>
RSub(a, b) == RAdd(a, RNeg(b))
RMul(a, b) == Rat(a[1] * b[1], a[2] * b[2])
RInv(a)    == Rat(a[2], a[1])
RLess(a, b) == a[1] * b[2] < b[1] * a[2]
RLeq(a, b)  == a[1] * b[2] <= b[1] * a[2]
RZero == RInt(0)
ROne  == RInt(1)

RMinOf(S) == CHOOSE m \in S : \A x \in S : RLeq(m, x)
RMaxOf(S) == CHOOSE m \in S : \A x \in S : RLeq(x, m)

\* ------------------------------------------------------------ core.Matrix
\* An axis-aligned 2D affine map: (x, y) -> (sx*x + tx, sy*y + ty).
\* Matrix.translation, Matrix.scale and "@" (right operand applied first).
Translation(tx, ty) == [sx |-> ROne, sy |-> ROne, tx |-> tx, ty |-> ty]
Scale(sx, sy)       == [sx |-> sx, sy |-> sy, tx |-> RZero, ty |-> RZero]
MatMul(A, B) ==
    [sx |-> RMul(A.sx, B.sx), sy |-> RMul(A.sy, B.sy),
     tx |-> RAdd(RMul(A.sx, B.tx), A.tx),
     ty |-> RAdd(RMul(A.sy, B.ty), A.ty)]
\* Matrix.to_4x4_numpy: the 2D map embedded in 3D, z left alone.
To4x4(M) == [sx |-> M.sx, sy |-> M.sy, sz |-> ROne,
             tx |-> M.tx, ty |-> M.ty, tz |-> RZero]
ApplyMatrix(M, p) ==
    << RAdd(RMul(M.sx, p[1]), M.tx), RAdd(RMul(M.sy, p[2]), M.ty) >>

\* ---------------------------------------------------------- core.Geometry
\* A geometry is a sequence of subpaths; a subpath is a sequence of points
\* (the point of its move_to followed by the points of its line_to's).
EmptyGeometry == << >>
MoveTo(g, p)  == Append(g, << p >>)
LineTo(g, p)  == [g EXCEPT ![Len(g)] = Append(@, p)]

RECURSIVE TotalPoints(_)
TotalPoints(g) ==
    IF g = << >> THEN 0 ELSE Len(Head(g)) + TotalPoints(Tail(g))

MinPoints == 2
\* Geometry.is_empty: no subpaths, or fewer than the required points (no
\* subpath with the points a subpath must have).
IsEmpty(g) == Len(g) = 0 \/ \A i \in 1..Len(g) : Len(g[i]) < MinPoints

PointsOf(g) == UNION { { g[i][j] : j \in 1..Len(g[i]) } : i \in 1..Len(g) }
\* Geometry.rect: (min_x, min_y, max_x, max_y) over all points.
Rect(g) ==
    LET xs == { p[1] : p \in PointsOf(g) }
        ys == { p[2] : p \in PointsOf(g) }
    IN  IF PointsOf(g) = {}
          THEN << RZero, RZero, RZero, RZero >>
          ELSE << RMinOf(xs), RMinOf(ys), RMaxOf(xs), RMaxOf(ys) >>
\* Geometry.transform with a 4x4 matrix: every point (x, y, 0) is mapped.
Transform(g, M4) ==
    [i \in 1..Len(g) |->
        [j \in 1..Len(g[i]) |->
            << RAdd(RMul(M4.sx, g[i][j][1]), M4.tx),
               RAdd(RMul(M4.sy, g[i][j][2]), M4.ty) >>]]
\* Geometry.copy
Copy(g) == g

\* ------------------------------------------------------- the import call
VARIABLES
    pc,              \* the stage get_doc_items is at
    cq_available,    \* CQ_AVAILABLE, set when the module was loaded
    tmp_created,     \* the temporary file was created by this call
    tmp_exists,      \* the temporary file is on disk
    remove_failed,   \* os.remove raised (and was swallowed)
    model,           \* what importStep returned
    queried,         \* which of solids/shells/faces were asked of the model
    target_objects,
    primary_object,
    faces,           \* the planar faces of the primary object, as the list stands
    largest_face,
    align_note,      \* how the auto-align attempt ended
    projection,
    wires,           \* number of wires projection.vals() returned
    wire_idx,        \* wires taken from the list so far
    edges,           \* number of edges of the current wire
    edge_idx,        \* edges of the current wire taken so far
    geo,
    edge_count,
    n_seen,          \* discretize calls made
    n_raised,        \* discretize calls that raised
    n_empty,         \* discretize calls that returned no points
    start_skipped,   \* wires whose Edges() was empty
    caught,          \* the stage whose exception the outer handler caught
    outcome,         \* how the call ended, as the caller sees it
    payload

vars == << pc, cq_available, tmp_created, tmp_exists, remove_failed, model,
           queried, target_objects, primary_object, largest_face, faces, align_note,
           projection, wires, wire_idx, edges, edge_idx, geo, edge_count,
           n_seen, n_raised, n_empty, start_skipped, caught, outcome, payload >>

NoModel   == [solids |-> << >>, shells |-> << >>, faces |-> << >>, state |-> "unparsed"]
NoObject  == << "none", 0 >>
NoFace    == [id |-> 0, area |-> 0]
NoPayload == [returned |-> FALSE]
None      == "None"

Objects(kind, n) == [i \in 1..n |-> << kind, i >>]
Models ==
    { [solids |-> Objects("solid", a), shells |-> Objects("shell", b),
       faces |-> Objects("face", c), state |-> "parsed"] :
        a \in 0..MaxObj, b \in 0..MaxObj, c \in 0..MaxObj }

Init ==
    /\ pc = "start"
    /\ cq_available \in BOOLEAN
    /\ tmp_created = FALSE
    /\ tmp_exists = FALSE
    /\ remove_failed = FALSE
    /\ model = NoModel
    /\ queried = {}
    /\ target_objects = << >>
    /\ primary_object = NoObject
    /\ faces = << >>
    /\ largest_face = NoFace
    /\ align_note = "unattempted"
    /\ projection = None
    /\ wires = 0
    /\ wire_idx = 0
    /\ edges = 0
    /\ edge_idx = 0
    /\ geo = EmptyGeometry
    /\ edge_count = 0
    /\ n_seen = 0
    /\ n_raised = 0
    /\ n_empty = 0
    /\ start_skipped = 0
    /\ caught = "none"
    /\ outcome = "running"
    /\ payload = NoPayload

\* `return None` inside the try block: the finally clause runs next.
ReturnNone == /\ pc' = "finally"
              /\ outcome' = "absent"
              /\ caught' = caught
\* An exception inside the try block, caught by `except Exception` (174-176).
Caught(stage) == /\ pc' = "finally"
                 /\ outcome' = "absent"
                 /\ caught' = stage

\* The dependency check left out.
AfterAvailabilityCheck_NoCheck(available) == "write"

\* Lines 38-40: `if not CQ_AVAILABLE: return None`, before the try.
AfterAvailabilityCheck(available) == IF available THEN "write" ELSE "done"

\* Lines 38-40: the dependency check.
CheckAvailable ==
    /\ pc = "start"
    /\ pc' = AfterAvailabilityCheck(cq_available)
    /\ outcome' = IF pc' = "done" THEN "absent" ELSE outcome
    /\ UNCHANGED << cq_available, tmp_created, tmp_exists, remove_failed, model,
                    queried, target_objects, primary_object, largest_face, faces,
                    align_note, projection, wires, wire_idx, edges, edge_idx,
                    geo, edge_count, n_seen, n_raised, n_empty, start_skipped,
                    caught, payload >>

\* Where an exception raised by lines 43-45 goes: the with block is not
\* inside the try, so the exception leaves get_doc_items.
WriteFailureOutcome == "exception"

\* Lines 43-45: NamedTemporaryFile(delete=False), write, close.
\* how = "ok": file created and written; "create": creating it raised;
\* "write": tmp.write raised (the with block closes the file, delete=False
\* leaves it on disk).
WriteTemp ==
    /\ pc = "write"
    /\ \E how \in {"ok", "create", "write"} :
         /\ tmp_created' = (how # "create")
         /\ tmp_exists' = (how # "create")
         /\ IF how = "ok"
              THEN /\ pc' = "parse"
                   /\ outcome' = outcome
              ELSE /\ pc' = "done"
                   /\ outcome' = WriteFailureOutcome
    /\ UNCHANGED << cq_available, remove_failed, model,
                    queried, target_objects, primary_object, largest_face, faces,
                    align_note, projection, wires, wire_idx, edges, edge_idx,
                    geo, edge_count, n_seen, n_raised, n_empty, start_skipped,
                    caught, payload >>

\* Line 49: cq.importers.importStep(tmp_path).
Parse ==
    /\ pc = "parse"
    /\ \/ /\ model' \in Models
          /\ pc' = "select"
          /\ UNCHANGED << outcome, caught >>
       \/ /\ model' = model
          /\ Caught("parse")
    /\ UNCHANGED << cq_available, tmp_created, tmp_exists, remove_failed,
                    queried, target_objects, primary_object, largest_face, faces,
                    align_note, projection, wires, wire_idx, edges, edge_idx,
                    geo, edge_count, n_seen, n_raised, n_empty, start_skipped,
                    payload >>

\* The cascade with shells asked before solids.
Cascade_ShellsFirst(m) ==
    LET t1 == m.shells
        t2 == IF t1 = << >> THEN m.solids ELSE t1
        q2 == IF t1 = << >> THEN {"solids", "shells"} ELSE {"shells"}
        t3 == IF t2 = << >> THEN m.faces ELSE t2
        q3 == IF t2 = << >> THEN q2 \cup {"faces"} ELSE q2
    IN  [target |-> t3, queried |-> q3]

\* The cascade without its last step: loose faces are never asked for.
Cascade_NoFaces(m) ==
    LET t1 == m.solids
        t2 == IF t1 = << >> THEN m.shells ELSE t1
        q2 == IF t1 = << >> THEN {"solids", "shells"} ELSE {"solids"}
    IN  [target |-> t2, queried |-> q2]

\* Lines 54-60: the cascade solids, else shells, else faces, with the
\* queries it makes of the model.
Cascade(m) ==
    LET t1 == m.solids
        t2 == IF t1 = << >> THEN m.shells ELSE t1
        q2 == IF t1 = << >> THEN {"solids", "shells"} ELSE {"solids"}
        t3 == IF t2 = << >> THEN m.faces ELSE t2
        q3 == IF t2 = << >> THEN q2 \cup {"faces"} ELSE q2
    IN  [target |-> t3, queried |-> q3]

QueryOrder == << "solids", "shells", "faces" >>

\* Lines 54-66: object detection. Either every query the cascade makes
\* returns, or query number k of the cascade raises.
SelectObject ==
    /\ pc = "select"
    /\ \/ /\ queried' = Cascade(model).queried
          /\ target_objects' = Cascade(model).target
          /\ IF target_objects' = << >>
               THEN /\ primary_object' = primary_object
                    /\ ReturnNone
               ELSE /\ primary_object' = target_objects'[1]
                    /\ pc' = "align"
                    /\ UNCHANGED << outcome, caught >>
       \/ /\ \E k \in 1..3 :
               /\ QueryOrder[k] \in Cascade(model).queried
               /\ queried' = { QueryOrder[i] : i \in 1..k }
          /\ UNCHANGED << target_objects, primary_object >>
          /\ Caught("select")
    /\ UNCHANGED << cq_available, tmp_created, tmp_exists, remove_failed, model,
                    largest_face, faces, align_note, projection, wires, wire_idx,
                    edges, edge_idx, geo, edge_count, n_seen, n_raised,
                    n_empty, start_skipped, payload >>

\* ----------------------------------------------------------- auto-align
\* The planar faces of an object, in the kernel's enumeration order.
FaceLists ==
    UNION { [1..n -> 1..MaxArea] : n \in 0..MaxFaces }
Faces(areas) == [i \in 1..Len(areas) |-> [id |-> i, area |-> areas[i]]]

\* Line 80: faces.sort(key=Area, reverse=True), a stable sort: a face goes
\* behind every face whose area is at least its own.
RECURSIVE InsertByArea(_, _)
InsertByArea(sorted, f) ==
    IF sorted = << >> THEN << f >>
    ELSE IF Head(sorted).area >= f.area
           THEN << Head(sorted) >> \o InsertByArea(Tail(sorted), f)
           ELSE << f >> \o sorted
\* The sort without reverse=True: smallest area first.
RECURSIVE SortByAreaDesc_Ascending(_)
SortByAreaDesc_Ascending(fs) ==
    IF fs = << >> THEN << >>
    ELSE LET rest == SortByAreaDesc_Ascending(SubSeq(fs, 1, Len(fs) - 1))
             f    == fs[Len(fs)]
             low  == SelectSeq(rest, LAMBDA g : g.area <= f.area)
             high == SelectSeq(rest, LAMBDA g : g.area > f.area)
         IN  low \o << f >> \o high

RECURSIVE SortByAreaDesc(_)
SortByAreaDesc(fs) ==
    IF fs = << >> THEN << >>
    ELSE InsertByArea(SortByAreaDesc(SubSeq(fs, 1, Len(fs) - 1)), fs[Len(fs)])

\* The handler of the auto-align attempt re-raising.
AfterAlignRaise_Reraise == "finally"

\* Lines 89-90: the handler of the auto-align attempt logs a warning and
\* lets the function go on to line 93.
AfterAlignRaise == "fallback"

\* Lines 69-90: the auto-align attempt. fails = 0: nothing raised; fails = k:
\* step k raised (1: Workplane/faces("%PLANE"), 2: Area() in the sort,
\* 3: workplane(), 4: add(...).toPending()). list.sort computes every key
\* before it moves an element, so a raising Area() leaves the list as
\* enumerated.
Align ==
    /\ pc = "align"
    /\ \E areas \in FaceLists, fails \in 0..4 :
         LET fs == Faces(areas) IN
         IF fails = 1
           THEN /\ align_note' = "raised"
                /\ pc' = AfterAlignRaise
                /\ UNCHANGED << faces, largest_face, projection >>
         ELSE IF fs = << >>
           THEN /\ fails = 0
                /\ faces' = fs
                /\ align_note' = "noplanar"
                /\ pc' = "fallback"
                /\ UNCHANGED << largest_face, projection >>
         ELSE IF fails = 2
           THEN /\ faces' = fs
                /\ align_note' = "raised"
                /\ pc' = AfterAlignRaise
                /\ UNCHANGED << largest_face, projection >>
         ELSE /\ faces' = SortByAreaDesc(fs)
              /\ largest_face' = faces'[1]
              /\ IF fails = 0
                   THEN /\ projection' = "aligned"
                        /\ align_note' = "aligned"
                        /\ pc' = "fallback"
                   ELSE /\ projection' = projection
                        /\ align_note' = "raised"
                        /\ pc' = AfterAlignRaise
    /\ IF pc' = "fallback"
         THEN UNCHANGED << outcome, caught >>
         ELSE Caught("align")
    /\ UNCHANGED << cq_available, tmp_created, tmp_exists, remove_failed, model,
                    queried, target_objects, primary_object, wires, wire_idx,
                    edges, edge_idx, geo, edge_count, n_seen, n_raised,
                    n_empty, start_skipped, payload >>

\* The model once nothing reads it any more.
DroppedModel ==
    [solids |-> << >>, shells |-> << >>, faces |-> << >>, state |-> "dropped"]

\* Lines 93-94: the top-down projection when no aligned projection exists.
\* Past line 94 nothing reads model, target_objects, primary_object, faces
\* or largest_face again: their values are dropped once the projection is
\* taken.
Fallback ==
    /\ pc = "fallback"
    /\ \/ /\ projection' = IF projection = None THEN "default" ELSE projection
          /\ pc' = "vals"
          /\ model' = DroppedModel
          /\ queried' = {}
          /\ target_objects' = << >>
          /\ primary_object' = NoObject
          /\ faces' = << >>
          /\ largest_face' = NoFace
          /\ UNCHANGED << outcome, caught >>
       \/ /\ projection = None
          /\ Caught("fallback")
          /\ UNCHANGED << projection, model, queried, target_objects,
                          primary_object, largest_face, faces >>
    /\ UNCHANGED << cq_available, tmp_created, tmp_exists, remove_failed,
                    align_note, wires, wire_idx, edges, edge_idx, geo,
                    edge_count, n_seen, n_raised, n_empty, start_skipped,
                    payload >>

\* ------------------------------------------------------------ path assembly
Pt(p) == << RInt(p[1]), RInt(p[2]) >>
Points == { Pt(p) : p \in SamplePoints }
\* What edge.discretize can return: a list of 0..MaxPts points.
PointLists == UNION { [1..n -> Points] : n \in 0..MaxPts }

\* Lines 101-104: projection.vals(); no wires ends the import.
ProjectionVals ==
    /\ pc = "vals"
    /\ \/ \E n \in 0..MaxWires :
            /\ wires' = n
            /\ IF n = 0
                 THEN ReturnNone
                 ELSE /\ pc' = "wire"
                      /\ UNCHANGED << outcome, caught >>
       \/ /\ wires' = wires
          /\ Caught("vals")
    /\ UNCHANGED << cq_available, tmp_created, tmp_exists, remove_failed, model,
                    queried, target_objects, primary_object, largest_face, faces,
                    align_note, projection, wire_idx, edges, edge_idx, geo,
                    edge_count, n_seen, n_raised, n_empty, start_skipped,
                    payload >>

\* Where `for wire in wires` goes once the wire in hand is finished.
AfterWire(taken) == IF taken = wires THEN "check" ELSE "wire"

\* Where an exception raised by edges[0].startPoint() (line 111) goes: the
\* call is outside the per-edge try, so the outer handler catches it.
StartPointFailure == "finally"

\* Lines 106-112: take the next wire, ask for its edges, skip it if it has
\* none, otherwise move to the start point of its first edge.
NextWire ==
    /\ pc = "wire"
    /\ wire_idx < wires
    /\ wire_idx' = wire_idx + 1
    /\ \/ \E n \in 0..(MaxEdges - n_seen) :
            IF n = 0
              THEN /\ start_skipped' = start_skipped + 1
                   /\ pc' = AfterWire(wire_idx')
                   /\ UNCHANGED << edges, edge_idx, geo, outcome, caught >>
              ELSE \/ \E p \in Points :
                        /\ TotalPoints(geo) < MaxGeoPoints
                        /\ geo' = MoveTo(geo, p)
                        /\ edges' = n
                        /\ edge_idx' = 0
                        /\ pc' = "edge"
                        /\ UNCHANGED << start_skipped, outcome, caught >>
                   \/ /\ pc' = StartPointFailure
                      /\ IF pc' = "finally"
                           THEN /\ outcome' = "absent"
                                /\ caught' = "start"
                           ELSE UNCHANGED << outcome, caught >>
                      /\ UNCHANGED << edges, edge_idx, geo, start_skipped >>
       \/ /\ Caught("edges")
          /\ UNCHANGED << edges, edge_idx, geo, start_skipped >>
    /\ UNCHANGED << cq_available, tmp_created, tmp_exists, remove_failed, model,
                    queried, target_objects, primary_object, largest_face, faces,
                    align_note, projection, wires, edge_count, n_seen,
                    n_raised, n_empty, payload >>

\* Every returned point drawn, the first included.
AppendPoints_KeepFirst(g, points) ==
    [g EXCEPT ![Len(g)] = @ \o points]

\* Lines 122-123: line_to every point but the first.
RECURSIVE LineToAll(_, _)
LineToAll(g, pts) ==
    IF pts = << >> THEN g ELSE LineToAll(LineTo(g, Head(pts)), Tail(pts))
AppendPoints(g, points) == LineToAll(g, Tail(points))

\* Where `for edge in edges` goes once the edge in hand is finished.
AfterEdge(taken) == IF taken = edges THEN AfterWire(wire_idx) ELSE "edge"

\* A raising edge ending the import.
AfterEdgeRaise_Propagate(taken) == "finally"

\* Lines 125-126: a raising edge is skipped and the loop goes on.
AfterEdgeRaise(taken) == AfterEdge(taken)

\* Lines 114-124: the next edge of the wire is taken and discretize returns
\* `points`.
EdgeReturns(points) ==
    /\ pc = "edge"
    /\ edge_idx < edges
    /\ TotalPoints(geo) + Len(points) - 1 <= MaxGeoPoints
    /\ edge_idx' = edge_idx + 1
    /\ n_seen' = n_seen + 1
    /\ IF points = << >>
         THEN /\ n_empty' = n_empty + 1
              /\ UNCHANGED << geo, edge_count >>
         ELSE /\ geo' = AppendPoints(geo, points)
              /\ edge_count' = edge_count + 1
              /\ n_empty' = n_empty
    /\ pc' = AfterEdge(edge_idx')
    /\ UNCHANGED << n_raised, outcome, caught >>
    /\ UNCHANGED << cq_available, tmp_created, tmp_exists, remove_failed, model,
                    queried, target_objects, primary_object, largest_face,
                    faces, align_note, projection, wires, wire_idx, edges,
                    start_skipped, payload >>

\* Lines 114-118, 125-126: the next edge is taken and discretize raises.
EdgeRaises ==
    /\ pc = "edge"
    /\ edge_idx < edges
    /\ edge_idx' = edge_idx + 1
    /\ n_seen' = n_seen + 1
    /\ n_raised' = n_raised + 1
    /\ pc' = AfterEdgeRaise(edge_idx')
    /\ IF pc' = "finally"
         THEN /\ outcome' = "absent"
              /\ caught' = "discretize"
         ELSE UNCHANGED << outcome, caught >>
    /\ UNCHANGED << geo, edge_count, n_empty >>
    /\ UNCHANGED << cq_available, tmp_created, tmp_exists, remove_failed, model,
                    queried, target_objects, primary_object, largest_face,
                    faces, align_note, projection, wires, wire_idx, edges,
                    start_skipped, payload >>

\* Lines 114-126: take the next edge of the wire and discretize it.
ProcessEdge ==
    \/ \E points \in PointLists : EdgeReturns(points)
    \/ EdgeRaises

\* The emptiness check left out.
AfterCheck_NoCheck(g) == "package"

\* Lines 128-130: `if geo.is_empty(): return None`.
AfterCheck(g) == IF IsEmpty(g) THEN "finally" ELSE "package"

\* Lines 128-130: an empty geometry ends the import.
CheckEmpty ==
    /\ pc = "check"
    /\ pc' = AfterCheck(geo)
    /\ outcome' = IF pc' = "finally" THEN "absent" ELSE outcome
    /\ caught' = caught
    /\ UNCHANGED << cq_available, tmp_created, tmp_exists, remove_failed, model,
                    queried, target_objects, primary_object, largest_face, faces,
                    align_note, projection, wires, wire_idx, edges, edge_idx,
                    geo, edge_count, n_seen, n_raised, n_empty, start_skipped,
                    payload >>

\* ------------------------------------------------ normalization, packaging
\* The width taken as max_x alone.
Width_MaxOnly(g) == Rect(g)[3]

\* Lines 136-137.
Width(g)  == RSub(Rect(g)[3], Rect(g)[1])
Height(g) == RSub(Rect(g)[4], Rect(g)[2])

\* The scale step with no guard.
ScaleGuard_Always(width, height) == TRUE

\* The guard looking at the width alone.
ScaleGuard_WidthOnly(width, height) == RLess(RZero, width)

\* Line 152: the guard of the scale step.
ScaleGuard(width, height) == RLess(RZero, width) /\ RLess(RZero, height)

\* No flip at all.
FlipY_Identity == Scale(ROne, ROne)

\* Line 156: Matrix.translation(0, 1) @ Matrix.scale(1, -1).
FlipY == MatMul(Translation(RZero, ROne), Scale(ROne, RNeg(ROne)))

\* Lines 149-156: the normalized copy of the geometry.
Normalize(g) ==
    LET min_x  == Rect(g)[1]
        min_y  == Rect(g)[2]
        width  == Width(g)
        height == Height(g)
        moved  == Transform(Copy(g), To4x4(Translation(RNeg(min_x), RNeg(min_y))))
        scaled == IF ScaleGuard(width, height)
                    THEN Transform(moved, To4x4(Scale(RInv(width), RInv(height))))
                    ELSE moved
    IN  Transform(scaled, To4x4(FlipY))

\* The placement without its translation.
PlacementMatrix_NoTranslation(g) == Scale(Width(g), Height(g))

\* The placement composed the other way round (scale applied last).
PlacementMatrix_ScaleLast(g) ==
    MatMul(Scale(Width(g), Height(g)), Translation(Rect(g)[1], Rect(g)[2]))

\* Line 170: wp.matrix.
PlacementMatrix(g) ==
    MatMul(Translation(Rect(g)[1], Rect(g)[2]), Scale(Width(g), Height(g)))

\* Lines 135-172: measure, normalize and package; any step may raise.
Package ==
    /\ pc = "package"
    /\ \/ /\ payload' = [returned     |-> TRUE,
                         natural_size |-> << Width(geo), Height(geo) >>,
                         source_width_mm  |-> Width(geo),
                         source_height_mm |-> Height(geo),
                         segment_mask_geometry |-> Normalize(geo),
                         width_mm  |-> Width(geo),
                         height_mm |-> Height(geo),
                         matrix    |-> PlacementMatrix(geo)]
          /\ pc' = "finally"
          /\ outcome' = "payload"
          /\ caught' = caught
       \/ /\ payload' = payload
          /\ Caught("package")
    /\ UNCHANGED << cq_available, tmp_created, tmp_exists, remove_failed, model,
                    queried, target_objects, primary_object, largest_face, faces,
                    align_note, projection, wires, wire_idx, edges, edge_idx,
                    geo, edge_count, n_seen, n_raised, n_empty, start_skipped >>

\* Lines 177-183: the finally clause; a failing os.remove is swallowed.
Finally ==
    /\ pc = "finally"
    /\ IF tmp_exists
         THEN \/ /\ tmp_exists' = FALSE
                 /\ remove_failed' = remove_failed
              \/ /\ tmp_exists' = tmp_exists
                 /\ remove_failed' = TRUE
         ELSE UNCHANGED << tmp_exists, remove_failed >>
    /\ pc' = "done"
    /\ UNCHANGED << cq_available, tmp_created, model,
                    queried, target_objects, primary_object, largest_face, faces,
                    align_note, projection, wires, wire_idx, edges, edge_idx,
                    geo, edge_count, n_seen, n_raised, n_empty, start_skipped,
                    caught, outcome, payload >>

Next ==
    \/ CheckAvailable
    \/ WriteTemp
    \/ Parse
    \/ SelectObject
    \/ Align
    \/ Fallback
    \/ ProjectionVals
    \/ NextWire
    \/ ProcessEdge
    \/ CheckEmpty
    \/ Package
    \/ Finally

Spec == Init /\ [][Next]_vars

\* ------------------------------------------------------------------ claims
Ended == pc \in {"finally", "done"}
\* A bounding box <<min_x, min_y, max_x, max_y>> of positive width and height.
Positive(box) == RLess(box[1], box[3]) /\ RLess(box[2], box[4])
NonDegenerate(g) == \E box \in { Rect(g) } : Positive(box)

\* C1: no exception ever leaves get_doc_items; the call ends with a payload
\* or with an absent result, whichever step fails (writing the temporary
\* file included).
C1_NoExceptionEscapes == outcome # "exception"

\* C2: in every terminal state of an import that created the temporary
\* file, the file is gone unless its deletion failed (a failure that is
\* swallowed); a failure while writing the bytes included.
C2_TempFileReleased ==
    (pc = "done" /\ tmp_created) => (~tmp_exists \/ remove_failed)

\* C3: a loop with no edges, or whose first edge cannot be evaluated, is
\* skipped: it adds no subpath to the geometry and does not end the import.
C3_UnusableLoopSkipped ==
    /\ caught # "start"
    /\ (pc \in {"wire", "edge", "check", "package"}
          => Len(geo) = wire_idx - start_skipped)

\* C4: in the geometry of every returned payload every subpath has at least
\* two points.
C4_SubpathsHaveTwoPoints ==
    outcome = "payload" =>
        \A i \in 1..Len(payload.segment_mask_geometry) :
            Len(payload.segment_mask_geometry[i]) >= 2

\* C5 as stated: for non-degenerate geometry the placement transform maps
\* every point of the normalized geometry back to its original coordinates.
C5_PlacementRestoresPoints ==
    (outcome = "payload" /\ NonDegenerate(geo)) =>
        \A i \in 1..Len(geo) : \A j \in 1..Len(geo[i]) :
            ApplyMatrix(payload.matrix, payload.segment_mask_geometry[i][j])
                = geo[i][j]

\* The point (x, y) mirrored in the horizontal mid-line of the bounding box.
Mirrored(g, p) == << p[1], RSub(RAdd(Rect(g)[2], Rect(g)[4]), p[2]) >>

\* C5 amended: for non-degenerate geometry the placement transform maps the
\* normalized image of every original point (x, y) to (x, minY + maxY - y):
\* x is reconstructed, y is mirrored within the bounding box.
C5_PlacementRestoresMirrored ==
    outcome = "payload" =>
        \A box \in { Rect(geo) } : Positive(box) =>
            \A i \in 1..Len(geo) : \A j \in 1..Len(geo[i]) :
                ApplyMatrix(payload.matrix, payload.segment_mask_geometry[i][j])
                    = << geo[i][j][1],
                         RSub(RAdd(box[2], box[4]), geo[i][j][2]) >>

C5_Witness ==
    /\ outcome = "payload"
    /\ NonDegenerate(geo)
    /\ Width(geo) # ROne
    /\ \E i \in 1..Len(geo) : \E j \in 1..Len(geo[i]) :
          Mirrored(geo, geo[i][j]) # geo[i][j]

\* C6: the auto-align attempt never ends the import. When it finds no planar
\* face or raises, the import goes on with the default projection, and it
\* returns a payload whenever nothing later fails and the geometry drawn
\* from the default projection is not empty.
C6_AlignFallsBack ==
    /\ caught # "align"
    /\ (align_note \in {"noplanar", "raised"} /\ projection # None)
          => projection = "default"
    /\ (align_note \in {"noplanar", "raised"} /\ pc = "fallback")
          => projection = None
    /\ (pc = "done" /\ align_note \in {"noplanar", "raised"}
          /\ caught = "none" /\ wires > 0 /\ ~IsEmpty(geo))
          => (outcome = "payload" /\ projection = "default")

C6_Witness ==
    /\ pc = "done"
    /\ align_note = "raised"
    /\ projection = "default"
    /\ outcome = "payload"

\* C7: an edge whose discretization raises is skipped and nothing else is:
\* the failure never ends the import, every edge of every wire is still
\* taken, the edge count is the number of edges less those that raised
\* (N-1 of N when one edge raises and the others return points), and a
\* payload is returned when nothing else fails and the geometry is not empty.
C7_EdgeFailureRecoverable ==
    /\ caught # "discretize"
    /\ n_seen = n_raised + n_empty + edge_count
    /\ (n_raised = 1 /\ n_empty = 0) => edge_count = n_seen - 1
    /\ (pc \in {"check", "package"} \/ (Ended /\ caught = "none" /\ wires > 0))
          => (wire_idx = wires /\ edge_idx = edges)
    /\ (pc = "done" /\ n_raised >= 1 /\ caught = "none" /\ ~IsEmpty(geo))
          => outcome = "payload"

C7_Witness ==
    /\ pc = "done"
    /\ n_raised = 1
    /\ n_seen = 3
    /\ edge_count = 2
    /\ outcome = "payload"

\* C8: a payload is returned only when the projection had wires, all of
\* them were processed and the assembled geometry is not empty; its geometry
\* is the normalized copy of the whole assembled geometry, not empty, and
\* within the unit square when the geometry is non-degenerate. An import
\* that ends with no wires or with an empty geometry returns nothing.
C8_AllOrNothing ==
    /\ outcome = "payload" =>
          /\ wires > 0
          /\ wire_idx = wires
          /\ ~IsEmpty(geo)
          /\ payload.returned
          /\ ~IsEmpty(payload.segment_mask_geometry)
          /\ Len(payload.segment_mask_geometry) = Len(geo)
          /\ \A i \in 1..Len(geo) :
                Len(payload.segment_mask_geometry[i]) = Len(geo[i])
          /\ NonDegenerate(geo) =>
                \A p \in PointsOf(payload.segment_mask_geometry) :
                    /\ RLeq(RZero, p[1]) /\ RLeq(p[1], ROne)
                    /\ RLeq(RZero, p[2]) /\ RLeq(p[2], ROne)
    /\ outcome # "payload" => payload = NoPayload
    /\ (pc = "done" /\ projection # None /\ (wires = 0 \/ IsEmpty(geo)))
          => outcome = "absent"

C8_Witness ==
    /\ pc = "done"
    /\ outcome = "absent"
    /\ caught = "none"
    /\ wires > 0
    /\ wire_idx = wires
    /\ n_seen > 0
    /\ IsEmpty(geo)

\* C9: the primary object is the first solid if the model has solids, else
\* the first shell if it has shells, else the first loose face; shells are
\* asked for only when there are no solids, faces only when there are
\* neither solids nor shells.
C9_PrimaryByPrecedence ==
    /\ (model.state = "parsed" /\ pc \in {"align", "fallback"}) =>
          /\ model.solids # << >> => primary_object = model.solids[1]
          /\ (model.solids = << >> /\ model.shells # << >>)
                => primary_object = model.shells[1]
          /\ (model.solids = << >> /\ model.shells = << >>)
                => primary_object = model.faces[1]
    /\ model.state = "parsed" =>
          /\ "shells" \in queried => model.solids = << >>
          /\ "faces" \in queried
                => (model.solids = << >> /\ model.shells = << >>)

C9_Witness ==
    /\ pc = "align"
    /\ Len(model.solids) = 2
    /\ model.shells # << >>
    /\ model.faces # << >>
    /\ primary_object = << "solid", 1 >>
    /\ queried = {"solids"}

HasObjects(m) == m.solids # << >> \/ m.shells # << >> \/ m.faces # << >>

\* C10: a model with no solids, shells or faces ends the import with an
\* absent result before any alignment or projection is attempted; a model
\* with a solid, a shell or a face is never stopped by object selection: an
\* import that ends there without an exception had a model with none.
C10_OnlyNoGeometryIsFatal ==
    /\ (model.state = "parsed" /\ ~HasObjects(model) /\ Ended /\ caught = "none")
          => /\ outcome = "absent"
             /\ align_note = "unattempted"
             /\ projection = None
             /\ wires = 0
             /\ geo = EmptyGeometry
    /\ (model.state = "parsed" /\ HasObjects(model) /\ pc # "select"
          /\ caught # "select")
          => (pc \in {"align", "fallback"} \/ caught = "fallback")

C10_Witness ==
    /\ pc = "done"
    /\ model.state = "parsed"
    /\ ~HasObjects(model)
    /\ queried = {"solids", "shells", "faces"}
    /\ outcome = "absent"
    /\ caught = "none"

\* C11: when the primary object has planar faces and the sort went through,
\* the face the alignment plane is derived from is one of them, no planar
\* face has a larger area, and among the faces of that area it is the one
\* the kernel enumerated first.
C11_LargestFaceChosen ==
    largest_face # NoFace =>
        /\ \E i \in 1..Len(faces) : faces[i] = largest_face
        /\ \A i \in 1..Len(faces) :
              /\ largest_face.area >= faces[i].area
              /\ faces[i].area = largest_face.area
                    => largest_face.id <= faces[i].id

C11_Witness ==
    /\ pc = "fallback"
    /\ align_note = "aligned"
    /\ Len(faces) = 2
    /\ faces[1].area = faces[2].area
    /\ largest_face = [id |-> 1, area |-> faces[1].area]

NormGeo == payload.segment_mask_geometry
BoxWidth(box)  == RSub(box[3], box[1])
BoxHeight(box) == RSub(box[4], box[2])

\* C13: for non-degenerate geometry the placement transform applied to the
\* normalized geometry gives a geometry whose bounding box is the original
\* bounding box.
C13_BoundingBoxRoundTrip ==
    outcome = "payload" =>
        \A box \in { Rect(geo) } : Positive(box) =>
            Rect(Transform(NormGeo, To4x4(payload.matrix))) = box

C13_Witness ==
    /\ outcome = "payload"
    /\ NonDegenerate(geo)
    /\ Rect(geo) = << RInt(1), RInt(1), RInt(3), RInt(4) >>

\* C14: for non-degenerate geometry the normalized geometry spans the unit
\* square, the points on the original minY at y = 1 and those on the
\* original maxY at y = 0.
C14_UnitSquareFlipped ==
    outcome = "payload" =>
        \A box \in { Rect(geo) } : Positive(box) =>
            /\ Rect(NormGeo) = << RZero, RZero, ROne, ROne >>
            /\ \A i \in 1..Len(geo) : \A j \in 1..Len(geo[i]) :
                  /\ geo[i][j][2] = box[2] => NormGeo[i][j][2] = ROne
                  /\ geo[i][j][2] = box[4] => NormGeo[i][j][2] = RZero
                  /\ geo[i][j][1] = box[1] => NormGeo[i][j][1] = RZero
                  /\ geo[i][j][1] = box[3] => NormGeo[i][j][1] = ROne

C14_Witness ==
    /\ outcome = "payload"
    /\ NonDegenerate(geo)
    /\ Len(geo) = 1
    /\ Len(geo[1]) = 3
    /\ geo[1][1] = Pt(<<1, 1>>)
    /\ NormGeo[1][1] = << RZero, ROne >>

Finite(x) == x[2] > 0

\* C15: the scale step runs exactly when width and height are both
\* positive: a non-degenerate geometry comes out divided by (width, height),
\* a geometry of zero width or zero height comes out undivided, and no
\* coordinate of a payload is infinite or NaN.
C15_ScaleOnlyWhenPositive ==
    outcome = "payload" =>
        /\ \A p \in PointsOf(NormGeo) : Finite(p[1]) /\ Finite(p[2])
        /\ \A box \in { Rect(geo) } :
           \A w \in { BoxWidth(box) } : \A h \in { BoxHeight(box) } :
           \A i \in 1..Len(geo) : \A j \in 1..Len(geo[i]) :
              IF RLess(RZero, w) /\ RLess(RZero, h)
                THEN /\ RMul(NormGeo[i][j][1], w) = RSub(geo[i][j][1], box[1])
                     /\ RMul(RSub(ROne, NormGeo[i][j][2]), h)
                            = RSub(geo[i][j][2], box[2])
                ELSE /\ NormGeo[i][j][1] = RSub(geo[i][j][1], box[1])
                     /\ RSub(ROne, NormGeo[i][j][2]) = RSub(geo[i][j][2], box[2])

C15_Witness ==
    /\ outcome = "payload"
    /\ BoxWidth(Rect(geo)) = RInt(2)
    /\ BoxHeight(Rect(geo)) = RZero
    /\ \E p \in PointsOf(NormGeo) : p[1] = RInt(2)

\* C16: when the kernel binding is unavailable the call ends at once with an
\* absent result: no temporary file is created and no kernel operation is
\* made.
C16_FailFastWithoutKernel ==
    ~cq_available =>
        /\ pc \in {"start", "done"}
        /\ pc = "done" => outcome = "absent"
        /\ ~tmp_created
        /\ ~tmp_exists
        /\ model = NoModel
        /\ queried = {}
        /\ projection = None
        /\ align_note = "unattempted"
        /\ wires = 0
        /\ n_seen = 0
        /\ geo = EmptyGeometry
        /\ payload = NoPayload

C16_Witness ==
    /\ ~cq_available
    /\ pc = "done"
    /\ outcome = "absent"
    /\ ~tmp_created

\* C17: in every payload the natural size, the source's size, the segment's
\* size and the scale of the placement are the same (maxX - minX,
\* maxY - minY) of the raw geometry, the placement translates by
\* (minX, minY), and the raw geometry is left as it was measured.
C17_SizesConsistent ==
    outcome = "payload" =>
        /\ \A box \in { Rect(geo) } :
           \A w \in { BoxWidth(box) } : \A h \in { BoxHeight(box) } :
              /\ payload.natural_size = << w, h >>
              /\ payload.source_width_mm = w
              /\ payload.source_height_mm = h
              /\ payload.width_mm = w
              /\ payload.height_mm = h
              /\ payload.matrix.sx = w
              /\ payload.matrix.sy = h
              /\ payload.matrix.tx = box[1]
              /\ payload.matrix.ty = box[2]
        /\ \A p \in PointsOf(geo) : p \in Points

C17_Witness ==
    /\ outcome = "payload"
    /\ payload.natural_size = << RInt(2), RInt(3) >>
    /\ payload.matrix.tx = RInt(1)
    /\ payload.matrix.ty = RInt(1)
    /\ NormGeo # geo

\* C18: a geometry that is not empty but has zero width or zero height
\* still gives a payload: its geometry is the raw one moved by
\* (-minX, -minY) and flipped, neither axis rescaled, and the placement
\* scales the degenerate axis by zero.
C18_DegenerateStillReturned ==
    /\ outcome = "payload" =>
          \A box \in { Rect(geo) } : ~Positive(box) =>
              /\ \A i \in 1..Len(geo) : \A j \in 1..Len(geo[i]) :
                    NormGeo[i][j] =
                        << RSub(geo[i][j][1], box[1]),
                           RSub(ROne, RSub(geo[i][j][2], box[2])) >>
              /\ box[3] = box[1] => payload.matrix.sx = RZero
              /\ box[4] = box[2] => payload.matrix.sy = RZero
    /\ (pc = "done" /\ caught = "none" /\ ~IsEmpty(geo) /\ ~NonDegenerate(geo))
          => outcome = "payload"

C18_Witness ==
    /\ pc = "done"
    /\ outcome = "payload"
    /\ \E box \in { Rect(geo) } :
          /\ box[3] = box[1]
          /\ BoxHeight(box) = RInt(3)
    /\ \E p \in PointsOf(NormGeo) : p[2] = RInt(-2)
    /\ payload.matrix.sx = RZero
    /\ payload.matrix.sy = RInt(3)

====
